---- MODULE Spec2Model ----
(***************************************************************************)
(* N/U algebra (07_code/nu_algebra.py) and the sequential conservative     *)
(* aggregation of 07_code/hubble_analysis.py.                              *)
(*                                                                         *)
(* Python numbers are modelled as exact rationals in lowest terms, tagged  *)
(* with their Python type ("int" or "float").  Arithmetic is exact: the    *)
(* rounding of IEEE-754 doubles is not modelled, so every equality below   *)
(* is an equality of real numbers.                                         *)
(***************************************************************************)
EXTENDS Integers, Sequences, FiniteSets

VARIABLES acc, call, heap

vars == <<acc, call, heap>>

(***************************************************************************)
(* Bounds of the model.                                                    *)
(***************************************************************************)
MaxN == 2          \* raw nominal inputs are the integers -MaxN..MaxN
MaxU == 2          \* raw uncertainty inputs are the integers -1..MaxU
MaxA == 2          \* integer scalars and offsets are -MaxA..MaxA
MaxK == 3          \* exponents are the integers -1..MaxK
MaxLen == 2        \* longest argument list of the N/U aggregates
MaxSeqLen == 3     \* longest value / error array of aggregate_sequential
MaxV == 1          \* measured values are the floats -1..MaxV
MaxE == 1          \* error estimates are the floats 0..MaxE
MaxMag == 4        \* a result is held for further calls only while |numerator| <= MaxMag
MaxDen == 2        \* ... and denominator <= MaxDen
MaxHeap == 2       \* objects a caller keeps references to

(***************************************************************************)
(* Python numbers.                                                         *)
(***************************************************************************)
RECURSIVE GCD(_, _)
GCD(a, b) == IF b = 0 THEN a ELSE GCD(b, a % b)

Abs(k) == IF k < 0 THEN -k ELSE k

\* the number p/q (q > 0) of Python type t, in lowest terms
Rat(t, p, q) ==
    LET g == GCD(Abs(p), q)
    IN  [t |-> t, num |-> p \div g, den |-> q \div g]

int(k) == Rat("int", k, 1)

flt(p, q) == Rat("float", p, q)

\* type of the result of a binary arithmetic operator
Coerce(x, y) == IF x.t = "float" \/ y.t = "float" THEN "float" ELSE "int"

plus(x, y) == Rat(Coerce(x, y), x.num * y.den + y.num * x.den, x.den * y.den)

minus(x, y) == Rat(Coerce(x, y), x.num * y.den - y.num * x.den, x.den * y.den)

times(x, y) == Rat(Coerce(x, y), x.num * y.num, x.den * y.den)

\* x / y, y # 0: true division always yields a float
truediv(x, y) ==
    IF y.num < 0 THEN Rat("float", -(x.num * y.den), x.den * (-y.num))
                 ELSE Rat("float", x.num * y.den, x.den * y.num)

\* x == y, x < y, x > y compare values, whatever the types
eq(x, y) == x.num * y.den = y.num * x.den

lt(x, y) == x.num * y.den < y.num * x.den

gt(x, y) == lt(y, x)

abs(x) == [x EXCEPT !.num = Abs(x.num)]

float(x) == [x EXCEPT !.t = "float"]

\* builtin max of two arguments: the first one unless the second is greater
max(a, b) == IF gt(b, a) THEN b ELSE a

\* sum(list), starting from the int 0
RECURSIVE sum(_)
sum(ws) == IF ws = <<>> THEN int(0)
           ELSE plus(sum(SubSeq(ws, 1, Len(ws) - 1)), ws[Len(ws)])

(***************************************************************************)
(* class NU                                                                *)
(***************************************************************************)
\* NU.__init__ without the clamp
NU_noclamp(n, u) == [n |-> float(n), u |-> float(u)]

\* NU.__init__ taking the magnitude of u instead of clamping it
NU_magnitude(n, u) == [n |-> float(n), u |-> abs(float(u))]

NU(n, u) == [n |-> float(n), u |-> max(flt(0, 1), float(u))]

\* NU.__eq__
__eq__(self, other) == eq(self.n, other.n) /\ eq(self.u, other.u)

add(self, other) == NU(plus(self.n, other.n), plus(self.u, other.u))

sub(self, other) == NU(minus(self.n, other.n), plus(self.u, other.u))

mul(self, other) ==
    NU(times(self.n, other.n),
       plus(times(abs(self.n), other.u), times(abs(other.n), self.u)))

\* scalar without the absolute value of a
scalar_signed(self, a) == NU(times(a, self.n), times(a, self.u))

scalar(self, a) == NU(times(a, self.n), times(abs(a), self.u))

affine(self, a, b) == NU(plus(times(a, self.n), b), times(abs(a), self.u))

catch(self) == NU(int(0), plus(abs(self.n), self.u))

\* flip without the absolute value of n
flip_signed(self) == NU(self.u, self.n)

flip(self) == NU(self.u, abs(self.n))

invariant(self) == plus(abs(self.n), self.u)

__neg__(self) == scalar(self, int(-1))

__abs__(self) == NU(abs(self.n), self.u)

(***************************************************************************)
(* Outcome of a call: a returned value or a raised exception.              *)
(***************************************************************************)
Return(v) == [status |-> "return", value |-> <<v>>, error |-> ""]

Raise(msg) == [status |-> "ValueError", value |-> <<>>, error |-> msg]

\* an optional argument: None, or a given value
None == <<>>

Some(v) == <<v>>

RECURSIVE pow_loop(_, _, _)
pow_loop(result, self, count) ==
    IF count <= 0 THEN result ELSE pow_loop(mul(result, self), self, count - 1)

\* pow rejecting only negative exponents
pow_nonnegative(self, exponent) ==
    IF exponent < 0
    THEN Raise("Only positive integer exponents supported")
    ELSE Return(pow_loop(self, self, exponent - 1))

pow(self, exponent) ==
    IF exponent < 1
    THEN Raise("Only positive integer exponents supported")
    ELSE Return(pow_loop(self, self, exponent - 1))

(***************************************************************************)
(* Module-level functions of nu_algebra.py                                 *)
(***************************************************************************)
RECURSIVE sum_loop(_, _)
sum_loop(result, rest) ==
    IF rest = <<>> THEN result ELSE sum_loop(add(result, Head(rest)), Tail(rest))

cumulative_sum(nu_pairs) ==
    IF Len(nu_pairs) = 0 THEN NU(int(0), int(0))
    ELSE sum_loop(nu_pairs[1], Tail(nu_pairs))

RECURSIVE product_loop(_, _)
product_loop(result, rest) ==
    IF rest = <<>> THEN result ELSE product_loop(mul(result, Head(rest)), Tail(rest))

\* cumulative_product returning the additive identity on empty input
cumulative_product_zero(nu_pairs) ==
    IF Len(nu_pairs) = 0 THEN NU(int(0), int(0))
    ELSE product_loop(nu_pairs[1], Tail(nu_pairs))

cumulative_product(nu_pairs) ==
    IF Len(nu_pairs) = 0 THEN NU(int(1), int(0))
    ELSE product_loop(nu_pairs[1], Tail(nu_pairs))

\* weighted_mean checking the lengths before the emptiness
weighted_mean_length_first(nu_pairs, weights) ==
    LET w == IF weights = None THEN [i \in 1..Len(nu_pairs) |-> flt(1, 1)]
             ELSE weights[1]
    IN  IF Len(w) # Len(nu_pairs)
        THEN Raise("Weights must match number of N/U pairs")
        ELSE IF Len(nu_pairs) = 0
             THEN Raise("Cannot compute mean of empty list")
             ELSE IF eq(sum(w), int(0))
                  THEN Raise("Total weight cannot be zero")
                  ELSE Return(scalar(cumulative_sum([i \in 1..Len(nu_pairs) |->
                                                        scalar(nu_pairs[i], w[i])]),
                                     truediv(flt(1, 1), sum(w))))

weighted_mean(nu_pairs, weights) ==
    IF Len(nu_pairs) = 0 THEN Raise("Cannot compute mean of empty list")
    ELSE LET w == IF weights = None THEN [i \in 1..Len(nu_pairs) |-> flt(1, 1)]
                  ELSE weights[1]
         IN  IF Len(w) # Len(nu_pairs)
             THEN Raise("Weights must match number of N/U pairs")
             ELSE LET total_weight == sum(w)
                  IN  IF eq(total_weight, int(0))
                      THEN Raise("Total weight cannot be zero")
                      ELSE LET weighted_sum ==
                                   cumulative_sum([i \in 1..Len(nu_pairs) |->
                                                      scalar(nu_pairs[i], w[i])])
                           IN  Return(scalar(weighted_sum, truediv(flt(1, 1), total_weight)))

(***************************************************************************)
(* hubble_analysis.py                                                      *)
(***************************************************************************)
\* H0_DATA['n']: 67.4, 73.04, 73.3, 73.9, 67.19, 69.6
H0_DATA_n ==
    <<flt(337, 5), flt(1826, 25), flt(733, 10), flt(739, 10), flt(6719, 100), flt(348, 5)>>

\* H0_DATA['u']: 0.5, 1.04, 1.8, 3.0, 0.65, 2.5
H0_DATA_u ==
    <<flt(1, 2), flt(26, 25), flt(9, 5), flt(3, 1), flt(13, 20), flt(5, 2)>>

\* aggregate_pair without the disagreement term
aggregate_pair_average(v1, e1, v2, e2) ==
    <<times(plus(v1, v2), flt(1, 2)), times(plus(e1, e2), flt(1, 2))>>

\* aggregate_pair with the signed difference of the values
aggregate_pair_signed(v1, e1, v2, e2) ==
    <<times(plus(v1, v2), flt(1, 2)),
      plus(times(plus(e1, e2), flt(1, 2)), times(minus(v1, v2), flt(1, 2)))>>

aggregate_pair(v1, e1, v2, e2) ==
    LET agg_val == times(plus(v1, v2), flt(1, 2))
        prop_err == plus(times(plus(e1, e2), flt(1, 2)),
                         times(abs(minus(v1, v2)), flt(1, 2)))
    IN  <<agg_val, prop_err>>

\* the loop of aggregate_sequential from index i on (1-based)
RECURSIVE sequential_loop(_, _, _, _)
sequential_loop(result, i, values, errors) ==
    IF i > Len(values) THEN result
    ELSE sequential_loop(aggregate_pair(result[1], result[2], values[i], errors[i]),
                         i + 1, values, errors)

\* aggregate_sequential testing for empty values before comparing the lengths
aggregate_sequential_empty_first(values, errors) ==
    IF Len(values) = 0
    THEN Return(<<flt(0, 1), flt(0, 1)>>)
    ELSE IF Len(values) # Len(errors)
         THEN Raise("Values and errors must have same length")
         ELSE Return(sequential_loop(<<values[1], errors[1]>>, 2, values, errors))

aggregate_sequential(values, errors) ==
    IF Len(values) # Len(errors)
    THEN Raise("Values and errors must have same length")
    ELSE IF Len(values) = 0
         THEN Return(<<flt(0, 1), flt(0, 1)>>)
         ELSE Return(sequential_loop(<<values[1], errors[1]>>, 2, values, errors))

(***************************************************************************)
(* Inputs.                                                                 *)
(***************************************************************************)
Record(op, args, nums, out) == [op |-> op, args |-> args, nums |-> nums, out |-> out]

NoCall == Record("none", <<>>, <<>>, [status |-> "none", value |-> <<>>, error |-> ""])

\* a value is held for further calls while it is within the bounds
InRange(x) ==
    /\ Abs(x.n.num) <= MaxMag /\ x.n.den <= MaxDen
    /\ x.u.num <= MaxMag /\ x.u.den <= MaxDen

NomSet == {int(k) : k \in -MaxN..MaxN}

UncSet == {int(k) : k \in -1..MaxU}

ScalarSet == {int(k) : k \in -MaxA..MaxA} \cup {flt(1, 2)}

WeightSet == {int(-1), int(0), int(1), int(2)}

ExponentSet == -1..MaxK

Fresh == {NU(n, u) : n \in NomSet, u \in UncSet}

\* values passed in argument lists next to the held one
ListFresh == {NU(int(-1), int(1)), NU(int(MaxN), int(0))}

Held == {acc[i] : i \in DOMAIN acc}

Operands == Fresh \cup Held

SeqsUpTo(S, m) == UNION {[1..k -> S] : k \in 0..m}

\* argument lists: when a value is held, it is one of the arguments
Lists ==
    {xs \in SeqsUpTo(ListFresh \cup Held, MaxLen) :
        Held = {} \/ \E i \in DOMAIN xs : xs[i] \in Held}

WeightLists == {None} \cup {Some(ws) : ws \in SeqsUpTo(WeightSet, MaxLen)}

\* the example of the docstring of weighted_mean
DocMean == <<NU(int(10), int(1)), NU(int(12), flt(3, 2)), NU(int(11), flt(4, 5))>>

\* the example of the docstring of cumulative_product
DocProduct == <<NU(int(2), flt(1, 10)), NU(int(3), flt(1, 5)), NU(int(4), flt(1, 10))>>

\* NU(5, -3)
DocClamp == <<int(5), int(-3)>>

\* the measurements of H0_DATA, and the first two of them
H0Values == {H0_DATA_n, SubSeq(H0_DATA_n, 1, 2)}

H0Errors == {H0_DATA_u, SubSeq(H0_DATA_u, 1, 2)}

ValueSet == {flt(k, 1) : k \in -1..MaxV}

ErrorSet == {flt(k, 1) : k \in 0..MaxE}

\* aggregate_pair takes any floats: negative error estimates too
PairErrorSet == ErrorSet \cup {flt(-1, 1)}

(***************************************************************************)
(* State machine.  A caller holds at most one N/U value (acc).  It makes a *)
(* call on the held value and newly constructed ones; call records the     *)
(* call with its arguments and outcome.  Proceed lets the caller go on     *)
(* with the value the call returned.                                       *)
(***************************************************************************)
Init ==
    /\ acc = <<>>
    /\ call = NoCall
    /\ heap = <<>>

\* no call is pending
Idle == call = NoCall

Do(op, args, nums, out) ==
    /\ call' = Record(op, args, nums, out)
    /\ UNCHANGED <<acc, heap>>

Construct ==
    Idle /\ \E r \in (NomSet \X UncSet) \cup {DocClamp} :
                Do("NU", <<>>, r, Return(NU(r[1], r[2])))

\* the operands of a binary operator: the held value and any other, either way round
Pairs == {p \in Operands \X Operands : p[1] \in Held \/ p[2] \in Held}

Add ==
    Idle /\ \E p \in Pairs : Do("add", p, <<>>, Return(add(p[1], p[2])))

Sub ==
    Idle /\ \E p \in Pairs : Do("sub", p, <<>>, Return(sub(p[1], p[2])))

Mul ==
    Idle /\ \E p \in Pairs : Do("mul", p, <<>>, Return(mul(p[1], p[2])))

Scalar ==
    Idle /\ \E x \in Held, a \in ScalarSet : Do("scalar", <<x>>, <<a>>, Return(scalar(x, a)))

Affine ==
    Idle /\ \E x \in Held, a \in ScalarSet, b \in ScalarSet :
        Do("affine", <<x>>, <<a, b>>, Return(affine(x, a, b)))

Negate ==
    Idle /\ \E x \in Held : Do("neg", <<x>>, <<>>, Return(__neg__(x)))

Absolute ==
    Idle /\ \E x \in Held : Do("abs", <<x>>, <<>>, Return(__abs__(x)))

Catch ==
    Idle /\ \E x \in Held : Do("catch", <<x>>, <<>>, Return(catch(x)))

Flip ==
    Idle /\ \E x \in Held : Do("flip", <<x>>, <<>>, Return(flip(x)))

Pow ==
    Idle /\ \E x \in Held, k \in ExponentSet : Do("pow", <<x>>, <<k>>, pow(x, k))

CumulativeSum ==
    Idle /\ \E xs \in Lists : Do("cumulative_sum", xs, <<>>, Return(cumulative_sum(xs)))

CumulativeProduct ==
    Idle /\ \E xs \in Lists \cup {DocProduct} :
                Do("cumulative_product", xs, <<>>, Return(cumulative_product(xs)))

WeightedMean ==
    Idle /\ \E xs \in Lists \cup {DocMean}, ws \in WeightLists :
        Do("weighted_mean", xs, ws, weighted_mean(xs, ws))

\* the caller goes on, holding the returned value
Proceed ==
    /\ call # NoCall
    /\ call' = NoCall
    /\ acc' = IF call.out.status = "return" /\ InRange(call.out.value[1])
              THEN call.out.value ELSE acc
    /\ UNCHANGED heap

Next ==
    \/ Construct
    \/ Add
    \/ Sub
    \/ Mul
    \/ Scalar
    \/ Affine
    \/ Negate
    \/ Absolute
    \/ Catch
    \/ Flip
    \/ Pow
    \/ CumulativeSum
    \/ CumulativeProduct
    \/ WeightedMean
    \/ Proceed

Spec == Init /\ [][Next]_vars

(***************************************************************************)
(* Sequential aggregation of measurements: a call of aggregate_sequential  *)
(* on arrays of values and errors.                                         *)
(***************************************************************************)
AggregateSequential ==
    Idle /\ \E values \in SeqsUpTo(ValueSet, MaxSeqLen) \cup H0Values,
                errors \in SeqsUpTo(ErrorSet, MaxSeqLen) \cup H0Errors :
        Do("aggregate_sequential", <<>>, <<values, errors>>,
           aggregate_sequential(values, errors))

AggregatePair ==
    Idle /\ \E v1 \in ValueSet, e1 \in PairErrorSet, v2 \in ValueSet, e2 \in PairErrorSet :
                Do("aggregate_pair", <<>>, <<v1, e1, v2, e2>>,
                   Return(aggregate_pair(v1, e1, v2, e2)))

\* the call is over
Finish ==
    /\ call # NoCall
    /\ call' = NoCall
    /\ UNCHANGED <<acc, heap>>

NextSeq ==
    \/ AggregateSequential
    \/ AggregatePair
    \/ Finish

SpecSeq == Init /\ [][NextSeq]_vars

(***************************************************************************)
(* Objects.  A Python name refers to an object: NU(...) creates one, while *)
(* "result = self" and "result = nu_pairs[0]" make result refer to an      *)
(* object that exists already.  An object reference is modelled by the     *)
(* place of the object in the caller's heap (at, 0 for an object created   *)
(* during the call) and the object's attributes (val).  No method assigns  *)
(* to self.n or self.u outside __init__, so objects never change.          *)
(***************************************************************************)
\* the object NU(...) creates
new(v) == [at |-> 0, val |-> v]

\* the object the caller keeps at place i
object(i) == [at |-> i, val |-> heap[i]]

RECURSIVE pow_object_loop(_, _, _)
pow_object_loop(result, self, count) ==
    IF count <= 0 THEN result
    ELSE pow_object_loop(new(mul(result.val, self.val)), self, count - 1)

\* NU.pow: result = self, then result = result.mul(self) exponent - 1 times
pow_object(self, exponent) ==
    IF exponent < 1
    THEN Raise("Only positive integer exponents supported")
    ELSE Return(pow_object_loop(self, self, exponent - 1))

RECURSIVE sum_object_loop(_, _)
sum_object_loop(result, rest) ==
    IF rest = <<>> THEN result
    ELSE sum_object_loop(new(add(result.val, Head(rest).val)), Tail(rest))

\* cumulative_sum: result = nu_pairs[0], then result = result.add(nu)
cumulative_sum_object(nu_pairs) ==
    IF Len(nu_pairs) = 0 THEN new(NU(int(0), int(0)))
    ELSE sum_object_loop(nu_pairs[1], Tail(nu_pairs))

RECURSIVE product_object_loop(_, _)
product_object_loop(result, rest) ==
    IF rest = <<>> THEN result
    ELSE product_object_loop(new(mul(result.val, Head(rest).val)), Tail(rest))

\* cumulative_product: result = nu_pairs[0], then result = result.mul(nu)
cumulative_product_object(nu_pairs) ==
    IF Len(nu_pairs) = 0 THEN new(NU(int(1), int(0)))
    ELSE product_object_loop(nu_pairs[1], Tail(nu_pairs))

\* weighted_mean: the scaled values are new objects, and so is the result
weighted_mean_object(nu_pairs, weights) ==
    IF Len(nu_pairs) = 0 THEN Raise("Cannot compute mean of empty list")
    ELSE LET w == IF weights = None THEN [i \in 1..Len(nu_pairs) |-> flt(1, 1)]
                  ELSE weights[1]
         IN  IF Len(w) # Len(nu_pairs)
             THEN Raise("Weights must match number of N/U pairs")
             ELSE LET total_weight == sum(w)
                  IN  IF eq(total_weight, int(0))
                      THEN Raise("Total weight cannot be zero")
                      ELSE LET weighted_sum ==
                                   cumulative_sum_object([i \in 1..Len(nu_pairs) |->
                                       new(scalar(nu_pairs[i].val, w[i]))])
                           IN  Return(new(scalar(weighted_sum.val,
                                                 truediv(flt(1, 1), total_weight))))

(***************************************************************************)
(* State machine of a caller that keeps references: heap lists the objects *)
(* it refers to.  A call takes some of them as operands; the caller keeps  *)
(* the returned object too when it is a new one within the bounds.         *)
(***************************************************************************)
Objects == {object(i) : i \in DOMAIN heap}

ObjectLists == SeqsUpTo(Objects, MaxLen)

ObjectScalars == {int(-1), int(0), int(2)}

ObjectWeights == {None} \cup {Some(ws) : ws \in SeqsUpTo({int(-1), int(2)}, MaxLen)}

DoObject(op, args, nums, out) ==
    /\ call' = Record(op, args, nums, out)
    /\ heap' = IF /\ out.status = "return"
                  /\ out.value[1].at = 0
                  /\ InRange(out.value[1].val)
                  /\ Len(heap) < MaxHeap
               THEN Append(heap, out.value[1].val)
               ELSE heap
    /\ UNCHANGED acc

ConstructObject ==
    Idle /\ \E n \in NomSet, u \in UncSet :
                DoObject("object.NU", <<>>, <<n, u>>, Return(new(NU(n, u))))

AddObject ==
    Idle /\ \E x \in Objects, y \in Objects :
                DoObject("object.add", <<x, y>>, <<>>, Return(new(add(x.val, y.val))))

SubObject ==
    Idle /\ \E x \in Objects, y \in Objects :
                DoObject("object.sub", <<x, y>>, <<>>, Return(new(sub(x.val, y.val))))

MulObject ==
    Idle /\ \E x \in Objects, y \in Objects :
                DoObject("object.mul", <<x, y>>, <<>>, Return(new(mul(x.val, y.val))))

ScalarObject ==
    Idle /\ \E x \in Objects, a \in ObjectScalars :
                DoObject("object.scalar", <<x>>, <<a>>, Return(new(scalar(x.val, a))))

AffineObject ==
    Idle /\ \E x \in Objects, a \in ObjectScalars, b \in ObjectScalars :
                DoObject("object.affine", <<x>>, <<a, b>>, Return(new(affine(x.val, a, b))))

NegateObject ==
    Idle /\ \E x \in Objects :
                DoObject("object.neg", <<x>>, <<>>, Return(new(__neg__(x.val))))

AbsoluteObject ==
    Idle /\ \E x \in Objects :
                DoObject("object.abs", <<x>>, <<>>, Return(new(__abs__(x.val))))

CatchObject ==
    Idle /\ \E x \in Objects :
                DoObject("object.catch", <<x>>, <<>>, Return(new(catch(x.val))))

FlipObject ==
    Idle /\ \E x \in Objects :
                DoObject("object.flip", <<x>>, <<>>, Return(new(flip(x.val))))

PowObject ==
    Idle /\ \E x \in Objects, k \in ExponentSet :
                DoObject("object.pow", <<x>>, <<k>>, pow_object(x, k))

CumulativeSumObject ==
    Idle /\ \E xs \in ObjectLists :
                DoObject("object.cumulative_sum", xs, <<>>, Return(cumulative_sum_object(xs)))

CumulativeProductObject ==
    Idle /\ \E xs \in ObjectLists :
                DoObject("object.cumulative_product", xs, <<>>,
                         Return(cumulative_product_object(xs)))

WeightedMeanObject ==
    Idle /\ \E xs \in ObjectLists, ws \in ObjectWeights :
                DoObject("object.weighted_mean", xs, ws, weighted_mean_object(xs, ws))

NextObject ==
    \/ ConstructObject
    \/ AddObject
    \/ SubObject
    \/ MulObject
    \/ ScalarObject
    \/ AffineObject
    \/ NegateObject
    \/ AbsoluteObject
    \/ CatchObject
    \/ FlipObject
    \/ PowObject
    \/ CumulativeSumObject
    \/ CumulativeProductObject
    \/ WeightedMeanObject
    \/ Finish

SpecObject == Init /\ [][NextObject]_vars

(***************************************************************************)
(* Properties.                                                             *)
(***************************************************************************)
Returned == call.out.status = "return"

Result == call.out.value[1]

\* the error kinds, as the messages of the ValueError the code raises
InvalidExponent == "Only positive integer exponents supported"

EmptyInput == "Cannot compute mean of empty list"

WeightsLengthMismatch == "Weights must match number of N/U pairs"

ZeroTotalWeight == "Total weight cannot be zero"

LengthMismatch == "Values and errors must have same length"

Fails(kind) ==
    /\ call.out.status = "ValueError"
    /\ call.out.error = kind
    /\ call.out.value = <<>>

NUOps ==
    {"NU", "add", "sub", "mul", "scalar", "affine", "neg", "abs", "catch", "flip",
     "pow", "cumulative_sum", "cumulative_product", "weighted_mean"}

\* C1: non-negativity.  Every N/U value that exists, whether held by the
\* caller, passed as an argument or returned by a constructor, operator or
\* aggregate, has u >= 0.
C1_NonNegativity ==
    /\ \A i \in DOMAIN acc : acc[i].u.num >= 0
    /\ call.op \in NUOps =>
           /\ \A i \in DOMAIN call.args : call.args[i].u.num >= 0
           /\ Returned => Result.u.num >= 0

\* a weighted mean with a negative total weight of a value produced by an
\* earlier call returns a positive uncertainty
C1_Witness ==
    /\ call.op = "weighted_mean"
    /\ Returned
    /\ call.nums # None
    /\ sum(call.nums[1]).num < 0
    /\ \E i \in DOMAIN call.args : call.args[i] \notin Fresh
    /\ Result.u.num > 0

\* C2: construction never fails and clamps.  NU(n, u) returns a value whose n
\* is the given n and whose u is max(0, u), for negative u too.
C2_ConstructClamps ==
    call.op = "NU" =>
        /\ Returned
        /\ eq(Result.n, call.nums[1])
        /\ IF call.nums[2].num < 0 THEN Result.u.num = 0
           ELSE eq(Result.u, call.nums[2])

\* NU(5, -3) has been constructed, with u = 0
C2_Witness ==
    /\ call.op = "NU"
    /\ call.nums = DocClamp
    /\ Returned
    /\ Result.n.num = 5 /\ Result.n.den = 1
    /\ Result.u.num = 0

\* C3: catch and flip preserve the invariant |n| + u.
C3_InvariantPreserved ==
    call.op \in {"catch", "flip"} =>
        /\ Returned
        /\ eq(invariant(Result), invariant(call.args[1]))
        /\ call.op = "catch" =>
               /\ Result.n.num = 0
               /\ eq(Result.u, plus(abs(call.args[1].n), call.args[1].u))
        /\ call.op = "flip" =>
               /\ eq(Result.n, call.args[1].u)
               /\ eq(Result.u, abs(call.args[1].n))

\* flip of a value with negative n and positive u
C3_Witness ==
    /\ call.op = "flip"
    /\ call.args[1].n.num < 0
    /\ call.args[1].u.num > 0
    /\ Returned
    /\ invariant(Result).num > 0

\* the weights weighted_mean works with: all 1 when omitted
EffectiveWeights ==
    IF call.nums = None THEN [i \in 1..Len(call.args) |-> int(1)] ELSE call.nums[1]

RECURSIVE DotN(_, _, _)
DotN(ws, xs, k) ==
    IF k = 0 THEN int(0) ELSE plus(DotN(ws, xs, k - 1), times(ws[k], xs[k].n))

RECURSIVE DotU(_, _, _)
DotU(ws, xs, k) ==
    IF k = 0 THEN int(0) ELSE plus(DotU(ws, xs, k - 1), times(abs(ws[k]), xs[k].u))

RECURSIVE Total(_, _)
Total(ws, k) == IF k = 0 THEN int(0) ELSE plus(Total(ws, k - 1), ws[k])

\* C4: weighted_mean fails with EmptyInput whenever the list is empty, with
\* the length mismatch error when the list is not empty and the weights have
\* another length, with ZeroTotalWeight when the lengths match and the
\* weights sum to 0; it returns no value then, and succeeds otherwise.
C4_WeightedMeanFailures ==
    call.op = "weighted_mean" =>
        LET ws == EffectiveWeights
        IN  IF Len(call.args) = 0 THEN Fails(EmptyInput)
            ELSE IF Len(ws) # Len(call.args) THEN Fails(WeightsLengthMismatch)
            ELSE IF Total(ws, Len(ws)).num = 0 THEN Fails(ZeroTotalWeight)
            ELSE Returned /\ Len(call.out.value) = 1

\* an empty list with one weight: emptiness wins over the length mismatch
C4_Witness ==
    /\ call.op = "weighted_mean"
    /\ Len(call.args) = 0
    /\ call.nums # None
    /\ Len(call.nums[1]) = 1
    /\ Fails(EmptyInput)

\* C5: a successful weighted_mean returns r with r.n * W = sum of w[i] * n[i]
\* and r.u * |W| = sum of |w[i]| * u[i], W the total weight; omitted weights
\* count as 1, and the list of the docstring gives NU(11.0, 1.1).
C5_WeightedMeanValue ==
    (call.op = "weighted_mean" /\ Returned) =>
        LET ws == EffectiveWeights
            W == Total(ws, Len(ws))
        IN  /\ eq(times(Result.n, W), DotN(ws, call.args, Len(ws)))
            /\ eq(times(Result.u, abs(W)), DotU(ws, call.args, Len(ws)))
            /\ (call.args = DocMean /\ call.nums = None) =>
                   /\ Result.n.num = 11 /\ Result.n.den = 1
                   /\ Result.u.num = 11 /\ Result.u.den = 10

\* the mean of the docstring list, weights omitted
C5_Witness ==
    /\ call.op = "weighted_mean"
    /\ call.args = DocMean
    /\ call.nums = None
    /\ Returned
    /\ Result.n.num = 11
\* the arrays and the returned pair of a call of aggregate_sequential
Values == call.nums[1]

Errors == call.nums[2]

two == int(2)

\* the pairwise combinator as the specification writes it
combine(a, b) ==
    <<truediv(plus(a[1], b[1]), two),
      plus(truediv(plus(a[2], b[2]), two), truediv(abs(minus(a[1], b[1])), two))>>

\* the left fold of combine over the first k pairs, k >= 1
RECURSIVE FoldCombine(_, _, _)
FoldCombine(values, errors, k) ==
    IF k = 1 THEN <<values[1], errors[1]>>
    ELSE combine(FoldCombine(values, errors, k - 1), <<values[k], errors[k]>>)

SamePair(a, b) == eq(a[1], b[1]) /\ eq(a[2], b[2])

\* C6: on arrays of equal length >= 1 aggregate_sequential returns the left
\* fold of the pairwise combinator in input order, starting from the first
\* pair; one pair is returned unchanged; 67.4, 73.04 with errors 0.5, 1.04
\* give (70.22, 3.59).
C6_SequentialFold ==
    (call.op = "aggregate_sequential" /\ Len(Values) = Len(Errors) /\ Len(Values) >= 1) =>
        /\ Returned
        /\ SamePair(Result, FoldCombine(Values, Errors, Len(Values)))
        /\ Len(Values) = 1 => Result = <<Values[1], Errors[1]>>
        /\ (Values = SubSeq(H0_DATA_n, 1, 2) /\ Errors = SubSeq(H0_DATA_u, 1, 2)) =>
               /\ Result[1].num = 3511 /\ Result[1].den = 50
               /\ Result[2].num = 359 /\ Result[2].den = 100

\* the two measurements of the example have been aggregated
C6_Witness ==
    /\ call.op = "aggregate_sequential"
    /\ Values = SubSeq(H0_DATA_n, 1, 2)
    /\ Errors = SubSeq(H0_DATA_u, 1, 2)
    /\ Returned
    /\ Result[1].num = 3511

\* C7: arrays of different lengths, an empty one included, make
\* aggregate_sequential fail with LengthMismatch and return nothing; two
\* empty arrays give (0, 0).
C7_SequentialBoundaries ==
    call.op = "aggregate_sequential" =>
        /\ Len(Values) # Len(Errors) => Fails(LengthMismatch)
        /\ (Len(Values) = 0 /\ Len(Errors) = 0) =>
               /\ Returned
               /\ Result[1].num = 0 /\ Result[2].num = 0

\* no values and one error: the length check comes first
C7_Witness ==
    /\ call.op = "aggregate_sequential"
    /\ Len(Values) = 0
    /\ Len(Errors) = 1
    /\ Fails(LengthMismatch)

\* the arrays in another order
Permuted(xs, p) == [i \in DOMAIN xs |-> xs[p[i]]]

Perms(k) == {p \in [1..k -> 1..k] : \A i \in 1..k : \E j \in 1..k : p[j] = i}

\* re-ordering three measurements can change the aggregate
OrderMatters ==
    \E values \in [1..3 -> ValueSet], errors \in [1..3 -> ErrorSet], p \in Perms(3) :
        ~SamePair(aggregate_sequential(Permuted(values, p), Permuted(errors, p)).value[1],
                  aggregate_sequential(values, errors).value[1])

\* C8: aggregate_pair is symmetric, so two measurements aggregate to the same
\* pair in either order, and so does every step of the fold with its two
\* arguments exchanged; three measurements need not: some three-element
\* arrays and a permutation of them aggregate differently.
C8_OrderDependence ==
    /\ (call.op = "aggregate_sequential" /\ Returned) =>
           /\ Len(Values) = 2 =>
                  \A p \in Perms(2) :
                      SamePair(aggregate_sequential(Permuted(Values, p),
                                                    Permuted(Errors, p)).value[1],
                               Result)
           /\ \A k \in 2..Len(Values) :
                  LET a == FoldCombine(Values, Errors, k - 1)
                  IN  SamePair(aggregate_pair(Values[k], Errors[k], a[1], a[2]),
                               aggregate_pair(a[1], a[2], Values[k], Errors[k]))
    /\ OrderMatters

\* three measurements whose aggregate changes under a permutation
C8_Witness ==
    /\ call.op = "aggregate_sequential"
    /\ Returned
    /\ Len(Values) = 3
    /\ \E p \in Perms(3) :
           ~SamePair(aggregate_sequential(Permuted(Values, p),
                                          Permuted(Errors, p)).value[1],
                     Result)

\* x to the power k, k >= 0
RECURSIVE Power(_, _)
Power(x, k) == IF k = 0 THEN int(1) ELSE times(Power(x, k - 1), x)

\* C9: pow(x, k) fails with InvalidExponent and returns nothing exactly when
\* k < 1; for k >= 1 it returns n = x.n^k and u = k * |x.n|^(k-1) * x.u, so
\* pow(x, 1) = x and pow(x, 2) = mul(x, x).
C9_Pow ==
    call.op = "pow" =>
        LET x == call.args[1]
            k == call.nums[1]
        IN  IF k < 1 THEN Fails(InvalidExponent)
            ELSE /\ Returned
                 /\ eq(Result.n, Power(x.n, k))
                 /\ eq(Result.u, times(times(int(k), Power(abs(x.n), k - 1)), x.u))
                 /\ k = 1 => __eq__(Result, x)
                 /\ k = 2 => __eq__(Result, mul(x, x))

\* a cube of a value with negative n and positive u
C9_Witness ==
    /\ call.op = "pow"
    /\ call.nums[1] = 3
    /\ call.args[1].n.num < -1
    /\ call.args[1].u.num > 0
    /\ Returned
    /\ Result.u.num > 0

\* the left folds of add and of mul over the first k arguments, k >= 1
RECURSIVE FoldAdd(_, _)
FoldAdd(xs, k) == IF k = 1 THEN xs[1] ELSE add(FoldAdd(xs, k - 1), xs[k])

RECURSIVE FoldMul(_, _)
FoldMul(xs, k) == IF k = 1 THEN xs[1] ELSE mul(FoldMul(xs, k - 1), xs[k])

\* the values of the current state
Present == Held \cup {call.args[i] : i \in DOMAIN call.args} \cup {call.out.value[i] : i \in DOMAIN call.out.value}

\* C10: cumulative_sum and cumulative_product return NU(0, 0) and NU(1, 0)
\* on no arguments and the left fold of add, of mul, over their arguments
\* otherwise; what they return on no arguments is neutral: add(x, NU(0, 0)) = x
\* and mul(x, NU(1, 0)) = x for every value x.
C10_CumulativeFolds ==
    call.op \in NUOps =>
        /\ call.op = "cumulative_sum" =>
               /\ Returned
               /\ IF Len(call.args) = 0
                  THEN Result.n.num = 0 /\ Result.u.num = 0
                  ELSE __eq__(Result, FoldAdd(call.args, Len(call.args)))
        /\ call.op = "cumulative_product" =>
               /\ Returned
               /\ IF Len(call.args) = 0
                  THEN Result.n.num = 1 /\ Result.n.den = 1 /\ Result.u.num = 0
                  ELSE __eq__(Result, FoldMul(call.args, Len(call.args)))
        /\ \A x \in Present :
               /\ __eq__(add(x, cumulative_sum(<<>>)), x)
               /\ __eq__(mul(x, cumulative_product(<<>>)), x)

\* a product of two arguments, one of them with negative n
C10_Witness ==
    /\ call.op = "cumulative_product"
    /\ Len(call.args) = 2
    /\ call.args[1].n.num < 0
    /\ call.args[2].u.num > 0
    /\ Returned
    /\ Result.u.num > 0
\* C11: the docstring of cumulative_product: the product of NU(2, 0.1),
\* NU(3, 0.2) and NU(4, 0.1) is NU(24, 5.2).
C11_DocProduct ==
    (call.op = "cumulative_product" /\ call.args = DocProduct) =>
        /\ Returned
        /\ Result.n.num = 24 /\ Result.n.den = 1
        /\ Result.u.num = 26 /\ Result.u.den = 5

\* what the left fold of mul returns for the list of the docstring: NU(24, 3.4)
C11_FoldValue ==
    (call.op = "cumulative_product" /\ call.args = DocProduct) =>
        /\ Returned
        /\ Result.n.num = 24 /\ Result.n.den = 1
        /\ Result.u.num = 17 /\ Result.u.den = 5
\* x <= y
le(x, y) == ~lt(y, x)

\* C13: for error estimates e1 >= 0 and e2 >= 0 the pair (v, e) returned by
\* aggregate_pair has e >= 0 and its interval [v - e, v + e] contains both
\* v1 and v2.
C13_PairCoverage ==
    call.op = "aggregate_pair" =>
        LET v1 == call.nums[1]
            e1 == call.nums[2]
            v2 == call.nums[3]
            e2 == call.nums[4]
        IN  (e1.num >= 0 /\ e2.num >= 0) =>
                /\ Returned
                /\ Result[2].num >= 0
                /\ le(minus(Result[1], Result[2]), v1)
                /\ le(minus(Result[1], Result[2]), v2)
                /\ le(v1, plus(Result[1], Result[2]))
                /\ le(v2, plus(Result[1], Result[2]))

\* two values that disagree, with a positive and a zero error estimate
C13_Witness ==
    /\ call.op = "aggregate_pair"
    /\ lt(call.nums[1], call.nums[3])
    /\ call.nums[2].num > 0
    /\ call.nums[4].num = 0
    /\ Returned
    /\ Result[2].num > 0
ObjectOps ==
    {"object.add", "object.sub", "object.mul", "object.scalar", "object.affine",
     "object.neg", "object.abs", "object.catch", "object.flip", "object.pow",
     "object.cumulative_sum", "object.cumulative_product", "object.weighted_mean"}

\* C12: immutability and no aliasing.  Every operator and aggregate leaves n
\* and u of each operand as they were and returns a newly created object,
\* which is none of its operands; this includes pow(x, 1) and cumulative_sum
\* and cumulative_product of one element.
C12_NoAliasing ==
    (call.op \in ObjectOps /\ Returned) =>
        /\ \A i \in DOMAIN call.args : heap[call.args[i].at] = call.args[i].val
        /\ Result.at = 0
        /\ \A i \in DOMAIN call.args : Result.at # call.args[i].at

\* the calls that return one of their operands: pow(x, 1) and the two folds
\* of one element; every other call returns a new object, and no call
\* changes an operand
C12_AliasingCases ==
    (call.op \in ObjectOps /\ Returned) =>
        /\ \A i \in DOMAIN call.args : heap[call.args[i].at] = call.args[i].val
        /\ Result.at # 0 <=>
               \/ call.op = "object.pow" /\ call.nums[1] = 1
               \/ /\ call.op \in {"object.cumulative_sum", "object.cumulative_product"}
                  /\ Len(call.args) = 1
        /\ Result.at # 0 => Result = call.args[1]
====
